---- MODULE Spec2Model ----
(***************************************************************************)
(* A model of bin/add_corncob_results.py (geneshot): the reshaping of the  *)
(* long corncob table (read_corncob_results), the taxonomy ancestor walk   *)
(* (Taxonomy, annotate_taxa) and the batch writer (write_corncob_by_annot) *)
(* driven by the module-level script.                                      *)
(*                                                                         *)
(* Python strings that the code only compares are TLA+ strings.  Parameter *)
(* names, which the code takes apart (startswith, replace), are sequences  *)
(* of one-character strings.  Python's None / pandas' NaN is the string    *)
(* None / NaN.  Numeric cell values are the strings "0" and "1".           *)
(***************************************************************************)
EXTENDS Integers, Sequences, FiniteSets, TLC

VARIABLES
    \* ---- the run of the script (lines 207-254)
    pc,             \* position of the script
    corncob_csv,    \* the long table: (CAG, parameter, type) -> value
    mult,           \* CAG class -> number of CAGs the class stands for
    gene_annot,     \* [cols: column names, tax_id: class -> id, eggNOG_desc: class -> label]
    corncob_wide,   \* result of read_corncob_results
    columns_to_use, \* line 214
    df,             \* write_corncob_by_annot: the list of groups (line 147)
    pos,            \* write_corncob_by_annot: index of the `for i in df` loop
    ix,             \* line 162
    batch_size,     \* line 163
    batch,          \* line 164
    files,          \* shard index -> content written by to_csv
    written,        \* the sequence of shard indices passed to to_csv, in order
    skipped,        \* the groups the loop skipped (line 170-172)
    hdf_corncob,    \* what line 260 stored under /stats/cag/corncob
    \* ---- the taxonomy calls (lines 57-124)
    taxonomy_df,    \* tax_id -> [parent, name, rank]
    call,           \* the last call made: [fn, tax_id, rank]
    result,         \* what that call returned (or RecursionError)
    anc_cache,      \* lru_cache of ancestors (line 113): set of [tax_id, chain]
    rank_cache,     \* lru_cache of anc_at_rank (line 118): set of [n, rank, value]
    consulted,      \* TRUE iff the last call went on to read the taxonomy
    ncalls          \* number of calls made so far

vars == << pc, corncob_csv, mult, gene_annot, corncob_wide, columns_to_use, df, pos,
           ix, batch_size, batch, files, written, skipped, hdf_corncob,
           taxonomy_df, call, result, anc_cache, rank_cache, consulted, ncalls >>

runVars == << pc, corncob_csv, mult, gene_annot, corncob_wide, columns_to_use, df, pos,
              ix, batch_size, batch, files, written, skipped, hdf_corncob >>

taxVars == << taxonomy_df, call, result, anc_cache, rank_cache, consulted, ncalls >>

None == "None"
NaN == "NaN"

(***************************************************************************)
(* Strings as sequences of characters.                                     *)
(***************************************************************************)
mu == << "m", "u", "." >>
Intercept == << "(", "I", "n", "t", "e", "r", "c", "e", "p", "t", ")" >>
dummy == << "d", "u", "m", "m", "y" >>

\* str.startswith
startswith(s, prefix) ==
    /\ Len(s) >= Len(prefix)
    /\ SubSeq(s, 1, Len(prefix)) = prefix

\* str.replace(old, ""): every non-overlapping occurrence, scanning from the left
RECURSIVE replace(_, _)
replace(s, old) ==
    IF Len(s) < Len(old) THEN s
    ELSE IF SubSeq(s, 1, Len(old)) = old
         THEN replace(SubSeq(s, Len(old) + 1, Len(s)), old)
         ELSE << Head(s) >> \o replace(Tail(s), old)

(***************************************************************************)
(* read_corncob_results (lines 16-53).  The long table is a function from  *)
(* [CAG, parameter, type] to the value of that row.                        *)
(***************************************************************************)
Types == { "estimate", "std_error", "p_value" }
Values == { "0", "1" }

\* line 26-29: the rows whose parameter starts with "mu."
MuRows(csv) == { k \in DOMAIN csv : startswith(k.parameter, mu) }

\* line 30-34: pivot_table(index = [CAG, parameter], columns = type); a
\* combination with no row is NaN, a type with no row at all is no column
PivotIndex(csv) == { << k.CAG, k.parameter >> : k \in MuRows(csv) }
PivotColumns(csv) == { k.type : k \in MuRows(csv) }
PivotCell(csv, i, t) ==
    LET k == [CAG |-> i[1], parameter |-> i[2], type |-> t]
    IN  IF k \in DOMAIN csv THEN csv[k] ELSE NaN

\* line 36: s.replace("mu.", "") on the parameter column
StripMu(s) == replace(s, mu)

\* line 44: multipletests(p_value.fillna(1), 0.2, fdr_method)[1]; on p-values
\* that are all 0 or 1 every method of multipletests returns them unchanged
QValue(p) == IF p = NaN THEN "1" ELSE p

\* line 49: estimate / std_error as pandas divides floats
Wald(e, s) ==
    IF e = NaN \/ s = NaN THEN NaN
    ELSE IF s = "0" THEN (IF e = "0" THEN NaN ELSE "inf")
    ELSE e

KeyError == [raised |-> TRUE, columns |-> {}, rows |-> {}]

\* the whole function: a table [columns, rows], or KeyError when line 49
\* looks up a column the pivot did not produce
read_corncob_results(csv) ==
    LET cols == PivotColumns(csv)
        row(i) ==
            LET e == PivotCell(csv, i, "estimate")
                s == PivotCell(csv, i, "std_error")
                p == PivotCell(csv, i, "p_value")
            IN  [index |-> i, CAG |-> i[1], parameter |-> StripMu(i[2]),
                 estimate |-> e, std_error |-> s, p_value |-> p,
                 q_value |-> IF "p_value" \in cols THEN QValue(p) ELSE NaN,
                 wald |-> Wald(e, s)]
    IN  IF "estimate" \notin cols \/ "std_error" \notin cols
        THEN KeyError
        ELSE [raised |-> FALSE,
              columns |-> { "CAG", "parameter", "wald" } \cup cols
                          \cup (IF "p_value" \in cols THEN { "q_value" } ELSE {}),
              rows |-> { row(i) : i \in PivotIndex(csv) }]

(***************************************************************************)
(* Taxonomy (lines 57-103).  The table is a function from tax_id (a        *)
(* string) to [parent, name, rank]; parent is a string, "0" when missing   *)
(* (lines 70-80).                                                          *)
(***************************************************************************)
\* Python's recursion limit, which ends a recursion that does not end itself
RecursionLimit == 5

\* line 82-83: Series.get, None for an unknown id
parent(tbl, tax_id) == IF tax_id \in DOMAIN tbl THEN tbl[tax_id].parent ELSE None
\* line 99-100
name(tbl, tax_id) == IF tax_id \in DOMAIN tbl THEN tbl[tax_id].name ELSE None
\* line 102-103
rank(tbl, tax_id) == IF tax_id \in DOMAIN tbl THEN tbl[tax_id].rank ELSE None

\* line 85-97: [raised, chain]; raised is RecursionError, with the chain built so far
RECURSIVE ancestors(_, _, _)
ancestors(tbl, tax_id, a) ==
    LET a2 == a \o << tax_id >>
    IN  IF parent(tbl, tax_id) = None THEN [raised |-> FALSE, chain |-> a2]
        ELSE IF parent(tbl, tax_id) = tax_id THEN [raised |-> FALSE, chain |-> a2]
        ELSE IF Len(a2) >= RecursionLimit THEN [raised |-> TRUE, chain |-> a2]
        ELSE ancestors(tbl, parent(tbl, tax_id), a2)

\* line 122-124: the loop over the chain, returning at the first match
RECURSIVE FirstAtRank(_, _, _)
FirstAtRank(tbl, chain, r) ==
    IF chain = << >> THEN None
    ELSE IF rank(tbl, Head(chain)) = r THEN name(tbl, Head(chain))
    ELSE FirstAtRank(tbl, Tail(chain), r)

\* line 119-124 without the cache: [raised, value]; tax_id is a number here
\* and str(tax_id) keys the table
anc_at_rank(tbl, tax_id, r) ==
    IF tax_id = 0 THEN [raised |-> FALSE, value |-> None]
    ELSE LET a == ancestors(tbl, ToString(tax_id), << >>)
         IN  IF a.raised THEN [raised |-> TRUE, value |-> None]
             ELSE [raised |-> FALSE, value |-> FirstAtRank(tbl, a.chain, r)]

(***************************************************************************)
(* Calls of Taxonomy.ancestors and of annotate_taxa's anc_at_rank on one   *)
(* taxonomy table, well formed or not.                                     *)
(***************************************************************************)
MaxCalls == 2

TaxIds == { "1", "2", "3" }
ParentIds == { "0", "1", "2", "3" }
Ranks == { "species", "genus" }
AskedRanks == { "species", "genus", "family" }
AskedTaxIds == { "1", "2", "3", "9" }
AskedNumbers == { 0, 1, 2, 3, 9 }
NameOf == [t \in TaxIds |-> IF t = "1" THEN "A" ELSE IF t = "2" THEN "B" ELSE "C"]

\* every parent-pointer table over TaxIds, self loops and longer cycles included
Tables ==
    { [t \in TaxIds |-> [parent |-> p[t], name |-> NameOf[t], rank |-> r[t]]] :
        p \in [TaxIds -> ParentIds], r \in [TaxIds -> Ranks] }

NoCall == [fn |-> "none", tax_id |-> None, n |-> 0, rank |-> None]
NoResult == [raised |-> FALSE, value |-> None, chain |-> << >>]

\* line 113-115: the cached wrapper of tax.ancestors; a raised call caches nothing
CachedAncestors(tax_id) ==
    IF \E e \in anc_cache : e.tax_id = tax_id
    THEN [raised |-> FALSE, chain |-> (CHOOSE e \in anc_cache : e.tax_id = tax_id).chain]
    ELSE ancestors(taxonomy_df, tax_id, << >>)

\* a direct call tax.ancestors(tax_id) (line 85-97)
CallAncestors(tax_id) ==
    /\ ncalls < MaxCalls
    /\ LET a == ancestors(taxonomy_df, tax_id, << >>)
       IN  result' = [raised |-> a.raised, value |-> None, chain |-> a.chain]
    /\ call' = [fn |-> "ancestors", tax_id |-> tax_id, n |-> 0, rank |-> None]
    /\ consulted' = TRUE
    /\ ncalls' = ncalls + 1
    /\ UNCHANGED << taxonomy_df, anc_cache, rank_cache >>

\* a call anc_at_rank(n, rank = r) that the cache answers (line 118)
CallAncAtRankHit(n, r) ==
    /\ ncalls < MaxCalls
    /\ \E e \in rank_cache : e.n = n /\ e.rank = r
    /\ LET e == CHOOSE e \in rank_cache : e.n = n /\ e.rank = r
       IN  result' = [raised |-> FALSE, value |-> e.value, chain |-> << >>]
    /\ call' = [fn |-> "anc_at_rank", tax_id |-> ToString(n), n |-> n, rank |-> r]
    /\ consulted' = FALSE
    /\ ncalls' = ncalls + 1
    /\ UNCHANGED << taxonomy_df, anc_cache, rank_cache >>

\* a call anc_at_rank(n, rank = r) that runs the body (line 119-124)
CallAncAtRankMiss(n, r) ==
    /\ ncalls < MaxCalls
    /\ ~ \E e \in rank_cache : e.n = n /\ e.rank = r
    /\ LET a == IF n = 0 THEN [raised |-> FALSE, chain |-> << >>]
                ELSE CachedAncestors(ToString(n))
           v == IF n = 0 \/ a.raised THEN None
                ELSE FirstAtRank(taxonomy_df, a.chain, r)
       IN  /\ result' = [raised |-> a.raised, value |-> v, chain |-> a.chain]
           /\ anc_cache' = IF n = 0 \/ a.raised THEN anc_cache
                           ELSE anc_cache \cup { [tax_id |-> ToString(n), chain |-> a.chain] }
           /\ rank_cache' = IF a.raised THEN rank_cache
                            ELSE rank_cache \cup { [n |-> n, rank |-> r, value |-> v] }
    /\ call' = [fn |-> "anc_at_rank", tax_id |-> ToString(n), n |-> n, rank |-> r]
    /\ consulted' = (n # 0)
    /\ ncalls' = ncalls + 1
    /\ UNCHANGED taxonomy_df

(***************************************************************************)
(* The script (lines 207-260) and write_corncob_by_annot (lines 141-204).  *)
(* A CAG class c stands for mult[c] CAGs that have the same rows in the    *)
(* corncob table and the same annotations, so a row of class c counts for  *)
(* mult[c] rows of a DataFrame.                                            *)
(***************************************************************************)
NumCagClasses == 2
Classes == 1 .. NumCagClasses
Sizes == { 6000, 49999, 50000, 50001 }

mu_x == mu \o << "x" >>
mu_y == mu \o << "y" >>
mu_Intercept == mu \o Intercept
mu_Inter_mu_cept == mu \o << "(", "I", "n", "t", "e", "r" >> \o mu \o << "c", "e", "p", "t", ")" >>

\* the parameter names of the corncob table of a run
ParamSets ==
    { { mu_x },
      { mu_x, mu_y },
      { Intercept, mu_Intercept, mu_Inter_mu_cept, mu_x },
      { mu_Intercept },
      { Intercept } }

\* a corncob table with every type of every parameter for every CAG class
RunCsv(params) ==
    [k \in { [CAG |-> c, parameter |-> q, type |-> t] :
                c \in Classes, q \in params, t \in Types } |-> "1"]

\* the taxonomy of a run: a well formed tree whose root is its own parent
RunTaxonomy ==
    [t \in { "1", "10", "20", "30", "40" } |->
        CASE t = "1"  -> [parent |-> "1",  name |-> "root", rank |-> "no rank"]
          [] t = "10" -> [parent |-> "1",  name |-> "F",    rank |-> "family"]
          [] t = "20" -> [parent |-> "10", name |-> "G",    rank |-> "genus"]
          [] t = "30" -> [parent |-> "20", name |-> "S",    rank |-> "species"]
          [] t = "40" -> [parent |-> "1",  name |-> "G2",   rank |-> "genus"]]
RunTaxIds == { 0, 30, 40 }
EggLabels == { None, "e1" }
\* the labels in the order Python sorts them, which is groupby's order
SortedLabels == << "F", "G", "G2", "S", "e1" >>

AnnotCols == { "tax_id", "eggNOG_desc", "species", "genus", "family" }

\* /annot/gene/all: the columns it has, and each column's value per CAG
\* class (None in a column the table lacks, 0 for tax_id)
GeneAnnots ==
    { [columns |-> { "CAG" } \cup (IF ht THEN { "tax_id" } ELSE {})
                             \cup (IF he THEN { "eggNOG_desc" } ELSE {}),
       val |-> [col \in AnnotCols |->
                  IF col = "tax_id" THEN (IF ht THEN t ELSE [c \in Classes |-> 0])
                  ELSE IF col = "eggNOG_desc" /\ he THEN e
                  ELSE [c \in Classes |-> None]]] :
        ht \in BOOLEAN, he \in BOOLEAN,
        t \in [Classes -> RunTaxIds], e \in [Classes -> EggLabels] }

\* line 106-138: one new column per rank of rank_list
rank_list == { "family", "genus", "species" }
annotate_taxa(ga, tbl) ==
    [columns |-> ga.columns \cup rank_list,
     val |-> [col \in AnnotCols |->
                IF col \in rank_list
                THEN [c \in Classes |-> anc_at_rank(tbl, ga.val["tax_id"][c], col).value]
                ELSE ga.val[col]]]

\* line 238-240: corncob_wide.query("parameter != '(Intercept)'")
QueryMutant(wide) == wide
Query(wide) ==
    [wide EXCEPT !.rows = { r \in wide.rows : r.parameter # Intercept }]

\* line 156: gene_annot.groupby(col_name): the labels in sorted order, missing
\* labels dropped
GroupLabels(ga, col) ==
    SelectSeq(SortedLabels, LAMBDA l : \E c \in Classes : ga.val[col][c] = l)

\* line 148-154: the DataFrame of one (col_name, label)
Frame(wide, ga, col, label) ==
    LET cags == { c \in Classes : ga.val[col][c] = label }
    IN  [annotation |-> col, label |-> label, cags |-> cags,
         rows |-> { r \in wide.rows : r.CAG \in cags }]

\* line 147-157: the list comprehension, col_name outer and label inner
RECURSIVE BuildDf(_, _, _)
BuildDf(wide, ga, col_name_list) ==
    IF col_name_list = << >> THEN << >>
    ELSE LET col == Head(col_name_list)
             labels == GroupLabels(ga, col)
         IN  [j \in 1 .. Len(labels) |-> Frame(wide, ga, col, labels[j])]
             \o BuildDf(wide, ga, Tail(col_name_list))

\* number of CAGs the classes of S stand for
RECURSIVE SumMult(_)
SumMult(S) ==
    IF S = {} THEN 0
    ELSE LET c == CHOOSE c \in S : TRUE IN mult[c] + SumMult(S \ { c })

\* i.shape[0]: the number of rows of a DataFrame
RECURSIVE RowCount(_)
RowCount(rows) ==
    IF rows = {} THEN 0
    ELSE LET r == CHOOSE r \in rows : TRUE IN mult[r.CAG] + RowCount(rows \ { r })
Shape0(i) == RowCount(i.rows)

SkipThreshold == 50000
BatchThreshold == 10000

\* line 170
TooMany(i) == Shape0(i) >= SkipThreshold

\* line 178
BatchFullMutant(size) == size >= 5000
BatchFull(size) == size >= BatchThreshold

\* line 184
NextIxMutant(n) == n
NextIx(n) == n + 1

\* line 189
HasRemainderMutant(b) == FALSE
HasRemainder(b) == Len(b) > 0

\* line 197-201 and 247-251: the dummy DataFrame (the columns it lacks are NaN)
DummyFrame ==
    [annotation |-> NaN, label |-> NaN, cags |-> {},
     rows |-> { [index |-> << 0, dummy >>, CAG |-> 0, parameter |-> dummy,
                 estimate |-> "1", std_error |-> NaN, p_value |-> "1",
                 q_value |-> NaN, wald |-> NaN] }]

\* to_csv(fp_out.format(n)): the file of that index is created or overwritten
ToCsv(n, content) ==
    /\ files' = [k \in DOMAIN files \cup { n } |-> IF k = n THEN content ELSE files[k]]
    /\ written' = Append(written, n)

NoTable == [raised |-> FALSE, columns |-> {}, rows |-> {}]
NoFiles == [k \in {} |-> << >>]

\* line 208: read_corncob_results() returns
ReadOk ==
    /\ pc = "read"
    /\ ~ read_corncob_results(corncob_csv).raised
    /\ corncob_wide' = read_corncob_results(corncob_csv)
    /\ pc' = "annot"
    /\ UNCHANGED << corncob_csv, mult, gene_annot, columns_to_use, df, pos, ix,
                    batch_size, batch, files, written, skipped, hdf_corncob >>

\* line 208: read_corncob_results() raises, which ends the script
ReadRaises ==
    /\ pc = "read"
    /\ read_corncob_results(corncob_csv).raised
    /\ pc' = "raised"
    /\ UNCHANGED << corncob_csv, mult, gene_annot, corncob_wide, columns_to_use, df,
                    pos, ix, batch_size, batch, files, written, skipped, hdf_corncob >>

\* line 211-230: the rank columns and columns_to_use
Annotate ==
    /\ pc = "annot"
    /\ gene_annot' = IF "tax_id" \in gene_annot.columns
                     THEN annotate_taxa(gene_annot, taxonomy_df)
                     ELSE gene_annot
    /\ columns_to_use' =
           (IF "tax_id" \in gene_annot.columns
            THEN << "species", "genus", "family" >> ELSE << >>)
           \o (IF "eggNOG_desc" \in gene_annot.columns
               THEN << "eggNOG_desc" >> ELSE << >>)
    /\ pc' = "dispatch"
    /\ UNCHANGED << corncob_csv, mult, corncob_wide, df, pos, ix, batch_size, batch,
                    files, written, skipped, hdf_corncob >>

\* line 245-254: no column to use, the script writes the dummy file itself
DummyNoColumns ==
    /\ pc = "dispatch"
    /\ Len(columns_to_use) = 0
    /\ ToCsv(0, << DummyFrame >>)
    /\ pc' = "store"
    /\ UNCHANGED << corncob_csv, mult, gene_annot, corncob_wide, columns_to_use, df,
                    pos, ix, batch_size, batch, skipped, hdf_corncob >>

\* line 236-244 and 147-164: write_corncob_by_annot is called and df is not empty
EnterWriter ==
    /\ pc = "dispatch"
    /\ Len(columns_to_use) > 0
    /\ LET d == BuildDf(Query(corncob_wide), gene_annot, columns_to_use)
       IN  /\ Len(d) > 0
           /\ df' = d
    /\ pos' = 1
    /\ ix' = 0
    /\ batch_size' = 0
    /\ batch' = << >>
    /\ pc' = "loop"
    /\ UNCHANGED << corncob_csv, mult, gene_annot, corncob_wide, columns_to_use,
                    files, written, skipped, hdf_corncob >>

\* line 236-244, 147-159 and 195-204: df is empty, the dummy file
WriterDummy ==
    /\ pc = "dispatch"
    /\ Len(columns_to_use) > 0
    /\ LET d == BuildDf(Query(corncob_wide), gene_annot, columns_to_use)
       IN  /\ Len(d) = 0
           /\ df' = d
    /\ ToCsv(0, << DummyFrame >>)
    /\ pc' = "store"
    /\ UNCHANGED << corncob_csv, mult, gene_annot, corncob_wide, columns_to_use,
                    pos, ix, batch_size, batch, skipped, hdf_corncob >>

\* line 166-172: one turn of the loop, the DataFrame is skipped
LoopSkip ==
    /\ pc = "loop"
    /\ pos <= Len(df)
    /\ TooMany(df[pos])
    /\ skipped' = Append(skipped, df[pos])
    /\ pos' = pos + 1
    /\ UNCHANGED << pc, corncob_csv, mult, gene_annot, corncob_wide, columns_to_use,
                    df, ix, batch_size, batch, files, written, hdf_corncob >>

\* line 166-178: one turn of the loop, the DataFrame joins the batch
LoopAppend ==
    /\ pc = "loop"
    /\ pos <= Len(df)
    /\ ~ TooMany(df[pos])
    /\ ~ BatchFull(batch_size + Shape0(df[pos]))
    /\ batch' = Append(batch, df[pos])
    /\ batch_size' = batch_size + Shape0(df[pos])
    /\ pos' = pos + 1
    /\ UNCHANGED << pc, corncob_csv, mult, gene_annot, corncob_wide, columns_to_use,
                    df, ix, files, written, skipped, hdf_corncob >>

\* line 166-186: one turn of the loop, the DataFrame fills the batch, which is written
LoopFlush ==
    /\ pc = "loop"
    /\ pos <= Len(df)
    /\ ~ TooMany(df[pos])
    /\ BatchFull(batch_size + Shape0(df[pos]))
    /\ ToCsv(ix, Append(batch, df[pos]))
    /\ ix' = NextIx(ix)
    /\ batch_size' = 0
    /\ batch' = << >>
    /\ pos' = pos + 1
    /\ UNCHANGED << pc, corncob_csv, mult, gene_annot, corncob_wide, columns_to_use,
                    df, skipped, hdf_corncob >>

\* line 188-193: after the loop, a batch that is not empty is written
Remainder ==
    /\ pc = "loop"
    /\ pos > Len(df)
    /\ IF HasRemainder(batch)
       THEN ToCsv(ix, batch)
       ELSE UNCHANGED << files, written >>
    /\ pc' = "store"
    /\ UNCHANGED << corncob_csv, mult, gene_annot, corncob_wide, columns_to_use, df,
                    pos, ix, batch_size, batch, skipped, hdf_corncob >>

\* line 256-260: the wide table is stored, the script ends
StoreHdf ==
    /\ pc = "store"
    /\ hdf_corncob' = corncob_wide
    /\ pc' = "done"
    /\ UNCHANGED << corncob_csv, mult, gene_annot, corncob_wide, columns_to_use, df,
                    pos, ix, batch_size, batch, files, written, skipped >>

RunIdle ==
    /\ pc = "read"
    /\ corncob_wide = NoTable
    /\ columns_to_use = << >>
    /\ df = << >>
    /\ pos = 1
    /\ ix = 0
    /\ batch_size = 0
    /\ batch = << >>
    /\ files = NoFiles
    /\ written = << >>
    /\ skipped = << >>
    /\ hdf_corncob = NoTable

TaxIdle ==
    /\ call = NoCall
    /\ result = NoResult
    /\ anc_cache = {}
    /\ rank_cache = {}
    /\ consulted = FALSE
    /\ ncalls = 0

\* a run of the script on a corncob table, an annotation table and the taxonomy
Init ==
    /\ RunIdle
    /\ TaxIdle
    /\ corncob_csv \in { RunCsv(P) : P \in ParamSets }
    /\ mult \in [Classes -> Sizes]
    /\ gene_annot \in GeneAnnots
    /\ taxonomy_df = RunTaxonomy

Next ==
    \/ (ReadOk /\ UNCHANGED taxVars)
    \/ (ReadRaises /\ UNCHANGED taxVars)
    \/ (Annotate /\ UNCHANGED taxVars)
    \/ (DummyNoColumns /\ UNCHANGED taxVars)
    \/ (EnterWriter /\ UNCHANGED taxVars)
    \/ (WriterDummy /\ UNCHANGED taxVars)
    \/ (LoopSkip /\ UNCHANGED taxVars)
    \/ (LoopAppend /\ UNCHANGED taxVars)
    \/ (LoopFlush /\ UNCHANGED taxVars)
    \/ (Remainder /\ UNCHANGED taxVars)
    \/ (StoreHdf /\ UNCHANGED taxVars)

Spec == Init /\ [][Next]_vars

(***************************************************************************)
(* read_corncob_results alone, on small corncob tables of every shape.     *)
(***************************************************************************)
MaxLongRows == 3

mu_mu_x == mu \o mu \o << "x" >>
mu_serum_level ==
    mu \o << "s", "e", "r", "u", "m", ".", "l", "e", "v", "e", "l" >>
serum_level == << "s", "e", "r", "u", "m", ".", "l", "e", "v", "e", "l" >>
ReshapeParams == { Intercept, mu_x, mu_mu_x, mu_serum_level }

LongKeys ==
    { [CAG |-> c, parameter |-> q, type |-> t] :
        c \in 1 .. 2, q \in ReshapeParams, t \in Types }

\* the sets of at most n rows
RECURSIVE KeySetsUpTo(_)
KeySetsUpTo(n) ==
    IF n = 0 THEN { {} }
    ELSE LET prev == KeySetsUpTo(n - 1)
         IN  prev \cup { S \cup { k } : S \in prev, k \in LongKeys }

FixedAnnot ==
    [columns |-> { "CAG" }, val |-> [col \in AnnotCols |-> [c \in Classes |-> None]]]

InitReshape ==
    /\ RunIdle
    /\ TaxIdle
    /\ corncob_csv \in UNION { [D -> Values] : D \in KeySetsUpTo(MaxLongRows) }
    /\ mult = [c \in Classes |-> 1]
    /\ gene_annot = FixedAnnot
    /\ taxonomy_df = RunTaxonomy

NextReshape ==
    \/ (ReadOk /\ UNCHANGED taxVars)
    \/ (ReadRaises /\ UNCHANGED taxVars)

SpecReshape == InitReshape /\ [][NextReshape]_vars

(***************************************************************************)
(* The taxonomy calls alone, on every table.                               *)
(***************************************************************************)
InitTax ==
    /\ RunIdle
    /\ TaxIdle
    /\ corncob_csv = [k \in {} |-> "0"]
    /\ mult = [c \in Classes |-> 1]
    /\ gene_annot = FixedAnnot
    /\ taxonomy_df \in Tables

NextTax ==
    \/ \E t \in AskedTaxIds : CallAncestors(t) /\ UNCHANGED runVars
    \/ \E n \in AskedNumbers, r \in AskedRanks : CallAncAtRankHit(n, r) /\ UNCHANGED runVars
    \/ \E n \in AskedNumbers, r \in AskedRanks : CallAncAtRankMiss(n, r) /\ UNCHANGED runVars

SpecTax == InitTax /\ [][NextTax]_vars

(***************************************************************************)
(* The claims.                                                             *)
(***************************************************************************)
Range(q) == { q[j] : j \in 1 .. Len(q) }

\* every (file, position) of the shard files
AllPlaces == UNION { { << k, j >> : j \in 1 .. Len(files[k]) } : k \in DOMAIN files }
\* the places where DataFrame f was written
Places(f) == { pl \in AllPlaces : files[pl[1]][pl[2]] = f }
InFiles(f) == Places(f) # {}

\* the number of rows of a shard file
RECURSIVE FileRowCount(_)
FileRowCount(content) ==
    IF content = << >> THEN 0
    ELSE Shape0(Head(content)) + FileRowCount(Tail(content))

\* the number of features (CAGs) that carry the label of a DataFrame
NumFeatures(f) == SumMult(f.cags)

WriterRan == pc \in { "loop", "store", "done" } /\ Len(df) > 0

\* C4: Taxonomy.ancestors returns for every id and every table, self loops and
\* longer parent cycles included, and the chain it returns holds no id twice.
C4_AncestorsTerminates ==
    call.fn = "ancestors" =>
        /\ ~ result.raised
        /\ \A a, b \in 1 .. Len(result.chain) :
               a # b => result.chain[a] # result.chain[b]

\* the name of the first node of id, parent(id), parent(parent(id)), ... whose
\* rank is r, looking at no more than fuel + 1 nodes
RECURSIVE FirstOnParentChain(_, _, _, _)
FirstOnParentChain(tbl, id, r, fuel) ==
    IF id \notin DOMAIN tbl THEN None
    ELSE IF tbl[id].rank = r THEN tbl[id].name
    ELSE IF fuel = 0 THEN None
    ELSE FirstOnParentChain(tbl, tbl[id].parent, r, fuel - 1)

\* C7: anc_at_rank(0, rank) is None and reads no taxonomy; anc_at_rank(id, rank)
\* is the name of the first node on id's parent chain (id included) that has the
\* rank, None when there is none or the id is unknown; a repeated call returns
\* what the first call returned.
C7_AncAtRank ==
    call.fn = "anc_at_rank" =>
        /\ call.n = 0 => (result.value = None /\ ~ consulted)
        /\ ~ result.raised
        /\ result.value =
               IF call.n = 0 THEN None
               ELSE FirstOnParentChain(taxonomy_df, call.tax_id, call.rank,
                                       Cardinality(DOMAIN taxonomy_df))
        /\ \A e \in rank_cache :
               (e.n = call.n /\ e.rank = call.rank) => e.value = result.value

\* the cell of a wide row under the column of a type
Field(r, t) ==
    CASE t = "estimate" -> r.estimate
      [] t = "std_error" -> r.std_error
      [] t = "p_value" -> r.p_value

\* C5: read_corncob_results raises exactly when no row's parameter starts with
\* "mu."; otherwise it returns, a combination with no row is NaN in the wide
\* table, and wald is NaN where estimate or std_error is.
C5_RaisesIffNoMuRow ==
    /\ pc = "raised" <=> (pc # "read" /\ MuRows(corncob_csv) = {})
    /\ pc = "annot" =>
           \A r \in corncob_wide.rows :
               /\ \A t \in Types :
                      [CAG |-> r.index[1], parameter |-> r.index[2], type |-> t]
                          \notin DOMAIN corncob_csv
                      => Field(r, t) = NaN
               /\ (r.estimate = NaN \/ r.std_error = NaN) => r.wald = NaN

\* C10: the parameter of a wide row is the input parameter without its leading
\* "mu." and otherwise unchanged, so distinct input parameters of one CAG stay
\* distinct.
C10_OnlyLeadingMuRemoved ==
    pc = "annot" =>
        /\ \A r \in corncob_wide.rows :
               r.parameter = SubSeq(r.index[2], Len(mu) + 1, Len(r.index[2]))
        /\ \A r \in corncob_wide.rows :
               r.index[2] = mu_serum_level => r.parameter = serum_level
        /\ \A r1, r2 \in corncob_wide.rows :
               (r1.CAG = r2.CAG /\ r1.index # r2.index) => r1.parameter # r2.parameter

\* C1 as claimed: a group of exactly 50,001 features is skipped and is in no
\* shard, a group of exactly 50,000 features is kept and written, and a group
\* is skipped only when it has more than 50,000 features.
C1_SkipAboveFiftyThousandFeatures ==
    pc = "done" =>
        \A j \in 1 .. Len(df) :
            /\ NumFeatures(df[j]) = 50001 =>
                   (df[j] \in Range(skipped) /\ ~ InFiles(df[j]))
            /\ NumFeatures(df[j]) = 50000 =>
                   (df[j] \notin Range(skipped) /\ InFiles(df[j]))
            /\ df[j] \in Range(skipped) => NumFeatures(df[j]) > 50000

\* The rule of C1 with the bound as the code words it (line 168 "shared by
\* >= 50k CAGs", line 171 "too many (%d) CAGs found"): a group the loop has
\* passed is skipped exactly when it has at least 50,000 features.  Line 170
\* counts the rows of the DataFrame instead, so this fails as well: a group of
\* 49,999 features with two parameters each is skipped.
C1_SkipAtFiftyThousandCags ==
    WriterRan =>
        \A j \in 1 .. Len(df) :
            j < pos => (df[j] \in Range(skipped) <=> NumFeatures(df[j]) >= 50000)

\* a group of fewer than 50,000 features that is skipped, and so in no shard
C1_SkippedBelowFiftyThousandCags ==
    /\ pc = "done"
    /\ \E f \in Range(df) :
           /\ NumFeatures(f) = 49999
           /\ Shape0(f) = 99998
           /\ f \in Range(skipped)
           /\ ~ InFiles(f)

\* C2: a finished run has written a shard; with no column to use, or with
\* every group skipped, it has written shard 0 alone, holding the dummy row.
C2_AlwaysAShard ==
    pc = "done" =>
        /\ DOMAIN files # {}
        /\ (Len(columns_to_use) = 0 \/ \A j \in 1 .. Len(df) : df[j] \in Range(skipped))
               => (DOMAIN files = { 0 } /\ files[0] = << DummyFrame >>)

\* the run of C3: the groups are one of genus and one of eggNOG_desc, in that
\* order, of 6,000 rows each
TwoGroupsOfSixThousand ==
    /\ pc = "done"
    /\ Len(df) = 2
    /\ df[1].annotation = "genus" /\ Shape0(df[1]) = 6000
    /\ df[2].annotation = "eggNOG_desc" /\ Shape0(df[2]) = 6000

\* C3 as claimed: two shards, 10,000 rows in shard 0 and 2,000 in shard 1.
C3_SplitAtTenThousand ==
    TwoGroupsOfSixThousand =>
        /\ DOMAIN files = { 0, 1 }
        /\ FileRowCount(files[0]) = 10000
        /\ FileRowCount(files[1]) = 2000

\* C3 amended: one shard, shard 0, holding both groups whole (12,000 rows).
C3_OneShardOfWholeGroups ==
    TwoGroupsOfSixThousand =>
        /\ DOMAIN files = { 0 }
        /\ files[0] = << df[1], df[2] >>
        /\ FileRowCount(files[0]) = 12000

\* C3, witness: the run of C3 has finished and written
C3_Witness == TwoGroupsOfSixThousand /\ written # << >>

\* C6: no row of any shard file has the parameter "(Intercept)".
C6_NoInterceptInShards ==
    \A pl \in AllPlaces :
        \A r \in files[pl[1]][pl[2]].rows : r.parameter # Intercept

\* C6, witness: the corncob table has "(Intercept)" and "mu.(Intercept)", the wide table
\* a row named "(Intercept)", and a shard holds other rows of that row's CAG
C6_Witness ==
    /\ \E k \in DOMAIN corncob_csv : k.parameter = Intercept
    /\ \E k \in DOMAIN corncob_csv : k.parameter = mu_Intercept
    /\ \E r \in corncob_wide.rows :
           /\ r.parameter = Intercept
           /\ \E pl \in AllPlaces :
                  \E r2 \in files[pl[1]][pl[2]].rows : r2.CAG = r.CAG

\* the place of a column in columns_to_use
ColIndex(col) == CHOOSE j \in 1 .. Len(columns_to_use) : columns_to_use[j] = col
IsGroup(f) == f.annotation \in Range(columns_to_use)

\* C8: the shard indices written so far are 0, 1, ..., n-1 in that order, each
\* once; groups are in column order in df and lie in the shards in df's order,
\* so a group of a later column is never in a lower shard than a group of an
\* earlier column.
C8_ShardsSequentialInOrder ==
    /\ written = [j \in 1 .. Len(written) |-> j - 1]
    /\ DOMAIN files = 0 .. (Len(written) - 1)
    /\ \A a, b \in 1 .. Len(df) :
           a < b => ColIndex(df[a].annotation) <= ColIndex(df[b].annotation)
    /\ \A p1, p2 \in AllPlaces :
           LET f == files[p1[1]][p1[2]]
               g == files[p2[1]][p2[2]]
           IN  (IsGroup(f) /\ IsGroup(g)) =>
                   /\ ColIndex(f.annotation) < ColIndex(g.annotation) => p1[1] <= p2[1]
                   /\ \A a, b \in 1 .. Len(df) :
                          (df[a] = f /\ df[b] = g /\ a < b) =>
                              (p1[1] < p2[1] \/ (p1[1] = p2[1] /\ p1[2] < p2[2]))

\* C8, witness: three shards or more are written, with groups of two columns in two of them
C8_Witness ==
    /\ Len(written) >= 3
    /\ \E p1, p2 \in AllPlaces :
           /\ p1[1] # p2[1]
           /\ IsGroup(files[p1[1]][p1[2]]) /\ IsGroup(files[p2[1]][p2[2]])
           /\ files[p1[1]][p1[2]].annotation # files[p2[1]][p2[2]].annotation

\* C9: when write_corncob_by_annot has finished, every group that was not
\* skipped is in the shards exactly once, whole, the groups of the last batch
\* included, and the shards hold nothing else.
C9_EveryKeptGroupWrittenOnce ==
    (pc \in { "store", "done" } /\ Len(df) > 0) =>
        /\ \A j \in 1 .. Len(df) :
               df[j] \notin Range(skipped) => Cardinality(Places(df[j])) = 1
        /\ \A pl \in AllPlaces :
               /\ files[pl[1]][pl[2]] \in Range(df)
               /\ files[pl[1]][pl[2]] \notin Range(skipped)

\* C9, witness: a finished run whose last shard is a batch that never reached 10,000 rows,
\* written after an earlier shard
C9_Witness ==
    /\ pc = "done"
    /\ Len(written) >= 2
    /\ batch # << >>
    /\ files[ix] = batch
    /\ FileRowCount(files[ix]) > 0
    /\ FileRowCount(files[ix]) < 10000

====
